---------------------------- MODULE Spec2Model ----------------------------
(***************************************************************************)
(* A model of lispread.c, the generic Lisp reader, glued to the value      *)
(* model of its test harness (the second half of the same file).           *)
(*                                                                         *)
(* The reader is a recursive-descent function.  It is modelled as a state  *)
(* machine over an explicit call stack: one frame per active invocation of *)
(* READ_DECL, each frame holding the invocation's locals and its position  *)
(* (pc) in the code.  Every action reads the stream at one position at     *)
(* most, so that the stream may hand its characters over one at a time.    *)
(* Characters are C ints (ASCII codes), EOF is -1.                         *)
(***************************************************************************)
EXTENDS Integers, Sequences, FiniteSets, TLC

(***************************************************************************)
(* Bounds of the model.                                                    *)
(***************************************************************************)
\* Longest input the stream makes up character by character.
MaxLen == 4
\* Reads a host performs after a read has returned End-Of-Stream.
MaxEosReads == 2

(***************************************************************************)
(* Characters.                                                             *)
(***************************************************************************)
EOF == -1

Ord(ch) ==
  CASE ch = "\t" -> 9   [] ch = "\n" -> 10  [] ch = " " -> 32  [] ch = "!" -> 33
    [] ch = "\"" -> 34  [] ch = "#" -> 35   [] ch = "$" -> 36  [] ch = "'" -> 39
    [] ch = "(" -> 40   [] ch = ")" -> 41   [] ch = "*" -> 42  [] ch = "+" -> 43
    [] ch = "," -> 44   [] ch = "-" -> 45   [] ch = "." -> 46  [] ch = "/" -> 47
    [] ch = "0" -> 48   [] ch = "1" -> 49   [] ch = "2" -> 50  [] ch = "3" -> 51
    [] ch = "4" -> 52   [] ch = "5" -> 53   [] ch = "6" -> 54  [] ch = "7" -> 55
    [] ch = "8" -> 56   [] ch = "9" -> 57   [] ch = ";" -> 59  [] ch = "@" -> 64
    [] ch = "A" -> 65   [] ch = "B" -> 66   [] ch = "C" -> 67  [] ch = "D" -> 68
    [] ch = "E" -> 69   [] ch = "F" -> 70   [] ch = "I" -> 73  [] ch = "N" -> 78
    [] ch = "O" -> 79   [] ch = "P" -> 80   [] ch = "S" -> 83  [] ch = "T" -> 84
    [] ch = "U" -> 85   [] ch = "X" -> 88   [] ch = "Z" -> 90  [] ch = "[" -> 91
    [] ch = "\\" -> 92  [] ch = "]" -> 93   [] ch = "BQ" -> 96  [] ch = "a" -> 97
    [] ch = "b" -> 98   [] ch = "c" -> 99   [] ch = "d" -> 100 [] ch = "e" -> 101
    [] ch = "f" -> 102  [] ch = "g" -> 103  [] ch = "i" -> 105 [] ch = "l" -> 108
    [] ch = "n" -> 110  [] ch = "o" -> 111  [] ch = "p" -> 112 [] ch = "q" -> 113
    [] ch = "s" -> 115  [] ch = "t" -> 116  [] ch = "u" -> 117 [] ch = "w" -> 119
    [] ch = "x" -> 120  [] ch = "z" -> 122  [] ch = "|" -> 124 [] ch = "~" -> 126
    [] ch = "_" -> 95   [] ch = "h" -> 104 [] ch = "<80>" -> 200

\* The text of a tuple of one-character strings, as C characters ("BQ" names
\* the backquote and "<80>" a byte above 127).
Txt(t) == [i \in 1..Len(t) |-> Ord(t[i])]

\* <ctype.h> in the "C" locale (the harness never calls setlocale).
isspace(c) == c \in 9..13 \/ c = 32
isupper(c) == c \in 65..90
islower(c) == c \in 97..122
isalpha(c) == isupper(c) \/ islower(c)
isdigit(c) == c \in 48..57
tolower(c) == IF isupper(c) THEN c + 32 ELSE c

macro_terminating_charQ(c) ==
  \/ c = EOF
  \/ c = Ord(";") \/ c = Ord("(") \/ c = Ord(")")
  \/ c = Ord("[") \/ c = Ord("]")
  \/ c = Ord("#") \/ isspace(c)

\* The case labels of read_number (lines 430-448) and the default's c >= 128.
SymbolPunct ==
  { Ord(ch) : ch \in {"~", "!", "@", "$", "*", "+", "-", ".", "/", "|"} }
     \cup {37, 38, 95, 61, 58, 60, 62, 94, 63}
token_startQ(c) == isdigit(c) \/ isalpha(c) \/ c \in SymbolPunct \/ c >= 128

\* strcasecmp(a, b) == 0
strcasecmp_eq(a, b) ==
  /\ Len(a) = Len(b)
  /\ \A i \in 1..Len(a) : tolower(a[i]) = tolower(b[i])

(***************************************************************************)
(* The value model of the harness.  A VALUE is a machine word: either an   *)
(* immediate (an int converted to a pointer) or the address of an object.  *)
(* Objects of different tables never share an address, and no object has   *)
(* the address of an immediate within the ranges reached here.             *)
(***************************************************************************)
IMM(n) == [k |-> "imm", w |-> n]
PTR(kind, i) == [k |-> kind, w |-> i]

EOS == IMM(-1)
NIL == IMM(0)
T == IMM(512)
F == IMM(513)
U == IMM(514)
EQ(X, Y) == X = Y

MAKE_CHAR(I) == IMM(I + 256)

(***************************************************************************)
(* strtol(s, &se, radix) on a character sequence: white space, a sign, for *)
(* radix 16 an 0x prefix, then the digits of the radix.  The result is     *)
(* <<n, se>>, se the number of characters used (0 when there is no digit). *)
(* Texts within the bounds of the model stay inside the range of long and  *)
(* of int, so no value is clamped or truncated.                            *)
(***************************************************************************)
DigitVal(c) ==
  IF isdigit(c) THEN c - 48
  ELSE IF isupper(c) THEN c - 65 + 10
  ELSE IF islower(c) THEN c - 97 + 10
  ELSE 99

RECURSIVE SkipSpace(_, _)
SkipSpace(s, i) ==
  IF i <= Len(s) /\ isspace(s[i]) THEN SkipSpace(s, i + 1) ELSE i

RECURSIVE Digits(_, _, _, _)
\* <<value, index after the last digit>> scanning s from i with value acc
Digits(s, i, radix, acc) ==
  IF i <= Len(s) /\ DigitVal(s[i]) < radix
    THEN Digits(s, i + 1, radix, acc * radix + DigitVal(s[i]))
    ELSE <<acc, i>>

strtol(s, radix) ==
  LET i0 == SkipSpace(s, 1)
      neg == i0 <= Len(s) /\ s[i0] = Ord("-")
      i1 == IF i0 <= Len(s) /\ s[i0] \in {Ord("-"), Ord("+")} THEN i0 + 1 ELSE i0
      pfx == /\ radix = 16
             /\ i1 + 2 <= Len(s)
             /\ s[i1] = Ord("0")
             /\ s[i1 + 1] \in {Ord("x"), Ord("X")}
             /\ DigitVal(s[i1 + 2]) < 16
      i2 == IF pfx THEN i1 + 2 ELSE i1
      d == Digits(s, i2, radix, 0)
  IN  IF d[2] = i2 THEN <<0, 0>>
      ELSE <<IF neg THEN 0 - d[1] ELSE d[1], d[2] - 1>>

\* x = se && *se == 0 ? (VALUE) (n + 8192) : F
string_2_number(s, radix) ==
  LET r == strtol(s, radix)
  IN  IF r[2] = Len(s) THEN IMM(r[1] + 8192) ELSE F

(***************************************************************************)
(* State.                                                                  *)
(***************************************************************************)
VARIABLES
  input,    \* the characters of stdin known so far
  closed,   \* whether input is the whole of stdin
  pos,      \* number of characters consumed (ftell)
  feof,     \* the stream's end-of-file indicator
  stack,    \* the active invocations of READ_DECL, innermost last
  ret,      \* the value the last nested READ_CALL() returned
  pairs,    \* struct pair objects, by address
  strs,     \* the strings make_string allocated, by address
  symbols,  \* symbols[0 .. symbols_n - 1].name
  nctor,    \* number of calls of the value model's constructors so far
  status,   \* "run", or "abort" once ERROR was raised
  mainpc,   \* the caller: "loop" between reads, "read" inside one, "halt"
  result,   \* what the last top-level read returned
  nreads,   \* top-level reads started
  neos,     \* top-level reads that returned at line 201, the end of the input
  eos0,     \* nctor when a top-level read first did, -1 before
  ev        \* the last completed production (history)

stream == <<input, closed>>
heapv == <<pairs, strs, symbols, nctor>>
mainv == <<mainpc, result, nreads, neos, eos0>>
vars == <<input, closed, pos, feof, stack, ret, pairs, strs, symbols, nctor,
          status, mainpc, result, nreads, neos, eos0, ev>>

\* Characters the stream draws from when it makes the input up.
Alphabet ==
  { Ord(ch) : ch \in {"(", ")", " ", "a", ".", "#", ";", "|", "'", "\"", "\\"} }

\* Whole inputs, beyond what MaxLen characters can spell.
Curated ==
  { Txt(<<"(", "a", " ", "b", " ", "c", ")">>),
    Txt(<<"(", "a", " ", ".", " ", "b", ")">>),
    Txt(<<"[", "a", " ", "(", ")", " ", ".", " ", "1", "]">>),
    Txt(<<"(", "1", " ", "2">>),
    Txt(<<"(", ".", " ", "1", ")">>),
    Txt(<<"(", "a", " ", ".", " ", "b", " ", "c", ")">>),
    Txt(<<"(", "a", " ", ".", " ", "b", "]">>),
    Txt(<<"(", "a", " ", "#", ";", "b", ")">>),
    Txt(<<"(", "#", ";", "a", ")">>),
    Txt(<<"(", "a", " ", "#", "|", "b", "|", "#", ")">>),
    Txt(<<"(", "a", " ", "#", "!", "b", "\n", ")">>),
    Txt(<<"(", "#", ";", "a", " ", "b", " ", "#", ";", "c", " ", "d", ")">>),
    Txt(<<"#", "|", " ", "a", " ", "#", "|", " ", "b", " ", "|", "#", " ", "c",
          " ", "|", "#", " ", "7">>),
    Txt(<<";", " ", "c", "\n", "4", "2">>),
    Txt(<<"#", "x", "1", "F">>),
    Txt(<<"#", "x", "Z", "Z">>),
    Txt(<<"#", "X", "f", "f", " ", "#", "b", "1", "0", "1", " ", "#", "o", "1",
          "7", " ", "#", "D", "9">>),
    Txt(<<"#", "e", "#", "x", "1">>),
    Txt(<<"#", "i", "x", "1", "0", ")">>),
    Txt(<<"#", "b", "1", "2">>),
    Txt(<<"1", "2", "3", " ", "1", "F", " ", "+", " ", "-", "5">>),
    Txt(<<"-", "8", "1", "9", "3">>),
    Txt(<<"-", "7", "6", "7", "9">>),
    Txt(<<"'", "x", " ", "BQ", "x", " ", ",", "x", " ", ",", "@", "x">>),
    Txt(<<",", "@">>),
    Txt(<<"BQ", " ", ";", "c", "\n">>),
    Txt(<<"#", "\\", "s", "p", "a", "c", "e", " ", "#", "\\", "N", "e", "w",
          "l", "i", "n", "e", " ", "#", "\\", "a", " ", "#", "\\", "(">>),
    Txt(<<"#", "\\", "a", "b">>),
    Txt(<<"#", "\\", "<80>", " ", "<80>", "a">>),
    Txt(<<"#", "t", " ", "#", "f", " ", "#", "U", " ", "#", "T">>),
    Txt(<<"#", "(", "a", " ", "1", ")">>),
    Txt(<<"#", "!", "s", "h", "\n", "f", "o", "o", " ", "f", "o", "o">>),
    Txt(<<"\"", "a", "b", "c", "d", "e", "f", "\\", "\"", "g", "\"">>),
    Txt(<<"\"", "\\", "\\", "\"", "a", "\"">>),
    Txt(<<"(", "\"", "a", "\"", " ", "#", "\\", "a", " ", "#", "t", ")">>) }

\* A fresh invocation of READ_DECL entered at stream position p.
Frame(p, n) ==
  [ pc |-> "try_again",
    c |-> EOF, radix |-> 0, skip_radix_char |-> 0,    \* READ_DECL's locals
    terminator |-> EOF, l |-> NIL, lc |-> NIL, x |-> NIL,  \* list production
    level |-> 0,                                       \* block comment
    buf |-> <<>>, size |-> 0, buflen |-> 0, len |-> 0, \* token buffer
    wsret |-> "none",       \* where eat_whitespace_peekchar returns to
    qname |-> <<>>,         \* the quote-family symbol still to intern
    \* history
    start |-> p,            \* stream position on entry
    ctor0 |-> n,            \* nctor on entry
    prod |-> "none",        \* the production dispatched to
    lpos |-> p,             \* position when a retry label was last reached
    stalled |-> FALSE,      \* a retry label was reached again at the same position
    widx |-> -1, wsize |-> 0,   \* index and allocation size of the last write
    soff |-> 0, slen |-> 0,     \* the (offset, length) handed to STRING
    elems |-> <<>>,         \* what the element reads of a list returned
    dotted |-> FALSE,       \* a dotted tail was read
    tail |-> NIL,           \* what the read of the dotted tail returned
    cstart |-> 0, cctor |-> 0,  \* block comment: position after "#|", nctor there
    cend |-> 0,             \* position after the last block comment read
    retries |-> 0,          \* number of goto try_again
    dstart |-> p,           \* position of the character last dispatched on
    open |-> 0,             \* list: position of the opening bracket
    tend |-> 0,             \* list: position after the dotted tail
    tstart |-> 0,           \* token: position of the character in buf[0]
    sym0 |-> 0 ]            \* token: symbols_n when the token began

Init ==
  /\ \/ input = <<>> /\ closed = FALSE
     \/ input \in Curated /\ closed = TRUE
  /\ pos = 0
  /\ feof = FALSE
  /\ stack = <<>>
  /\ ret = NIL
  /\ pairs = <<>>
  /\ strs = <<>>
  /\ symbols = << Txt(<<".">>) >>
  /\ nctor = 0
  /\ status = "run"
  /\ mainpc = "loop"
  /\ result = NIL
  /\ nreads = 0
  /\ neos = 0
  /\ eos0 = -1
  /\ ev = [op |-> "none"]

(***************************************************************************)
(* The stream.                                                             *)
(***************************************************************************)
Top == stack[Len(stack)]
Running == status = "run" /\ Len(stack) > 0
At(p) == Running /\ Top.pc = p

\* The stream can answer a PEEKC or a GETC at the current position.
Avail == pos < Len(input) \/ closed
\* PEEKC(stream): GETC, and UNGETC unless it was EOF
PEEKC == IF pos < Len(input) THEN input[pos + 1] ELSE EOF

\* Positions of the code that read the stream.
ReadingPcs ==
  {"ws", "ws_comment", "comma", "hash", "shebang", "block", "block_peek",
   "char_first", "char_loop", "str_loop", "str_esc", "tok_loop"}

\* stdin delivers its next character, or its end.
Feed ==
  /\ Running /\ Top.pc \in ReadingPcs
  /\ ~Avail
  /\ \/ /\ Len(input) < MaxLen
        /\ \E c \in Alphabet : input' = Append(input, c)
        /\ closed' = FALSE
     \/ closed' = TRUE /\ input' = input
  /\ UNCHANGED <<pos, feof, stack, ret, heapv, status, mainv, ev>>

(***************************************************************************)
(* The value model's constructors (harness, lines 571-641).                *)
(***************************************************************************)
Found(tab, name) == \E i \in 1..Len(tab) : tab[i] = name
\* string_2_symbol: the first entry of that name, or a new one at symbols_n
SymIndex(tab, name) ==
  IF Found(tab, name)
    THEN CHOOSE i \in 1..Len(tab) :
           tab[i] = name /\ \A j \in 1..(i - 1) : tab[j] # name
    ELSE Len(tab) + 1
SymTab(tab, name) == IF Found(tab, name) THEN tab ELSE Append(tab, name)
string_2_symbol(tab, name) == PTR("sym", SymIndex(tab, name))
SYMBOL_DOT == string_2_symbol(symbols, Txt(<<".">>))

\* cons(a, d): a new pair; its address is the next of the table
cons(tab, a, d) == Append(tab, [car |-> a, cdr |-> d])
set_cdr(tab, p, v) == [tab EXCEPT ![p.w].cdr = v]

(***************************************************************************)
(* Control transfers of one invocation.                                    *)
(***************************************************************************)
\* stay in the invocation, as frame f
Goto(f, npos, sawEOF) ==
  /\ stack' = [stack EXCEPT ![Len(stack)] = f]
  /\ pos' = npos
  /\ feof' = (feof \/ sawEOF)
  /\ UNCHANGED <<ret, status, ev, mainv, stream>>

\* goto a retry label: note whether anything was consumed since the last time
Retry(f, label, npos) ==
  [f EXCEPT !.pc = label, !.lpos = npos,
            !.stalled = (f.stalled \/ npos = f.lpos),
            !.retries = IF label = "try_again" THEN f.retries + 1 ELSE f.retries]

\* READ_CALL(): the caller waits as frame f
Call(f, npos, n, sawEOF) ==
  /\ stack' = Append([stack EXCEPT ![Len(stack)] = f], Frame(npos, n))
  /\ pos' = npos
  /\ feof' = (feof \/ sawEOF)
  /\ UNCHANGED <<ret, status, ev, mainv, stream>>

\* RETURN(v) from the invocation whose frame is f
Return(v, f, npos) ==
  /\ pos' = npos
  /\ stack' = SubSeq(stack, 1, Len(stack) - 1)
  /\ ev' = [op |-> "ret", v |-> v, f |-> f, end |-> npos, depth |-> Len(stack),
            nctor |-> nctor', nsym |-> Len(symbols')]
  /\ IF Len(stack) = 1
       THEN /\ result' = v
            /\ mainpc' = "loop"
            /\ neos' = IF f.prod = "eos" THEN neos + 1 ELSE neos
            /\ eos0' = IF f.prod = "eos" /\ eos0 = -1 THEN nctor' ELSE eos0
            /\ UNCHANGED <<ret, nreads>>
       ELSE /\ ret' = v
            /\ UNCHANGED mainv
  /\ UNCHANGED <<feof, status, stream>>

\* RETURN(ERROR(...)): ERROR does not return
Fail(msg, f, npos, sawEOF) ==
  /\ status' = "abort"
  /\ stack' = [stack EXCEPT ![Len(stack)] = f]
  /\ pos' = npos
  /\ feof' = (feof \/ sawEOF)
  /\ ev' = [op |-> "error", msg |-> msg, f |-> f, end |-> npos,
            depth |-> Len(stack), nctor |-> nctor', nsym |-> Len(symbols')]
  /\ UNCHANGED <<ret, mainv, stream>>

(***************************************************************************)
(* eat_whitespace_peekchar (lines 124-158), called from wsret.             *)
(***************************************************************************)
\* call of eat_whitespace_peekchar: control reaches more_whitespace
EnterWs(f, back, npos) == [f EXCEPT !.pc = "ws", !.wsret = back, !.lpos = npos]

\* line 130: one turn of the white space loop
EatSpace ==
  /\ At("ws") /\ Avail
  /\ PEEKC # EOF /\ isspace(PEEKC)
  /\ Goto(Top, pos + 1, FALSE)
  /\ UNCHANGED heapv

\* line 137: a ';' starts a comment
EatCommentStart ==
  /\ At("ws") /\ Avail
  /\ PEEKC = Ord(";")
  /\ Goto([Top EXCEPT !.pc = "ws_comment", !.c = PEEKC], pos, FALSE)
  /\ UNCHANGED heapv

\* line 142: one turn of the comment loop
EatCommentChar ==
  /\ At("ws_comment") /\ Avail
  /\ PEEKC # EOF /\ PEEKC # Ord("\n")
  /\ Goto([Top EXCEPT !.c = PEEKC], pos + 1, FALSE)
  /\ UNCHANGED heapv

\* line 149: goto more_whitespace
EatCommentEnd ==
  /\ At("ws_comment") /\ Avail
  /\ PEEKC = EOF \/ PEEKC = Ord("\n")
  /\ Goto(Retry([Top EXCEPT !.c = PEEKC], "ws", pos), pos, PEEKC = EOF)
  /\ UNCHANGED heapv

\* line 157: return(c)
EatDone ==
  /\ At("ws") /\ Avail
  /\ ~(PEEKC # EOF /\ isspace(PEEKC)) /\ PEEKC # Ord(";")
  /\ Goto([Top EXCEPT !.pc = Top.wsret, !.c = PEEKC,
                      !.dstart = IF Top.wsret = "read_got" THEN pos ELSE Top.dstart],
          pos, PEEKC = EOF)
  /\ UNCHANGED heapv

(***************************************************************************)
(* READ_DECL (lines 189-480).                                              *)
(***************************************************************************)
\* lines 194-199
TryAgain ==
  /\ At("try_again")
  /\ Goto(EnterWs([Top EXCEPT !.radix = 10, !.skip_radix_char = 0],
                  "read_got", pos), pos, FALSE)
  /\ UNCHANGED heapv

\* as ReadEOS, but the empty list is returned at the end of the input
ReadEOS_nil ==
  /\ At("read_got") /\ Top.c = EOF
  /\ UNCHANGED heapv
  /\ Return(NIL, [Top EXCEPT !.prod = "eos"], pos)

\* lines 200-201
ReadEOS ==
  /\ At("read_got") /\ Top.c = EOF
  /\ UNCHANGED heapv
  /\ Return(EOS, [Top EXCEPT !.prod = "eos"], pos)

QuoteName(c) ==
  IF c = Ord("'") THEN Txt(<<"q", "u", "o", "t", "e">>)
  ELSE Txt(<<"q", "u", "a", "s", "i", "q", "u", "o", "t", "e">>)

\* CONS(SYMBOL(name), CONS(READ_CALL(), NIL)): the order in which the two
\* arguments of the outer CONS are evaluated is unspecified, so SYMBOL(name)
\* is called either before READ_CALL() or after it.
QuoteCall(f, name, npos, sawEOF) ==
  \/ /\ symbols' = SymTab(symbols, name)
     /\ nctor' = nctor + 1
     /\ UNCHANGED <<pairs, strs>>
     /\ Call([f EXCEPT !.pc = "quote_ret", !.prod = "quote", !.qname = <<>>,
                       !.x = string_2_symbol(symbols, name)],
             npos, nctor + 1, sawEOF)
  \/ /\ UNCHANGED heapv
     /\ Call([f EXCEPT !.pc = "quote_ret", !.prod = "quote", !.qname = name],
             npos, nctor, sawEOF)

\* lines 204-208
ReadQuote ==
  /\ At("read_got") /\ Top.c \in {Ord("'"), Ord("BQ")}
  /\ QuoteCall(Top, QuoteName(Top.c), pos + 1, FALSE)

\* line 210
ReadComma ==
  /\ At("read_got") /\ Top.c = Ord(",")
  /\ Goto([Top EXCEPT !.pc = "comma", !.prod = "quote"], pos + 1, FALSE)
  /\ UNCHANGED heapv

\* lines 211-216
CommaPeek ==
  /\ At("comma") /\ Avail
  /\ IF PEEKC = Ord("@")
       THEN QuoteCall(Top, Txt(<<"u", "n", "q", "u", "o", "t", "e", "_", "s",
                                 "p", "l", "i", "c", "i", "n", "g">>),
                      pos + 1, FALSE)
       ELSE QuoteCall(Top, Txt(<<"u", "n", "q", "u", "o", "t", "e">>),
                      pos, PEEKC = EOF)

\* the nested read of a quote form returned
QuoteRet ==
  /\ At("quote_ret")
  /\ LET tab == IF Top.qname = <<>> THEN symbols ELSE SymTab(symbols, Top.qname)
         sym == IF Top.qname = <<>> THEN Top.x
                ELSE string_2_symbol(symbols, Top.qname)
         inner == PTR("pair", Len(pairs) + 1)
         outer == PTR("pair", Len(pairs) + 2)
     IN  /\ symbols' = tab
         /\ pairs' = cons(cons(pairs, ret, NIL), sym, inner)
         /\ nctor' = nctor + (IF Top.qname = <<>> THEN 2 ELSE 3)
         /\ UNCHANGED strs
         /\ Return(outer, [Top EXCEPT !.x = sym], pos)

\* lines 219-228: '(' or '[' opens a list
ReadList ==
  /\ At("read_got") /\ Top.c \in {Ord("("), Ord("[")}
  /\ Goto(EnterWs([Top EXCEPT !.prod = "list",
                     !.c = IF Top.c = Ord("[") THEN Ord("]") ELSE Ord(")"),
                     !.terminator = IF Top.c = Ord("[") THEN Ord("]") ELSE Ord(")"),
                     !.l = NIL, !.lc = NIL, !.open = pos],
                  "list_got", pos + 1), pos + 1, FALSE)
  /\ UNCHANGED heapv

\* line 232
ListEOS ==
  /\ At("list_got") /\ Top.c = EOF
  /\ UNCHANGED heapv
  /\ Fail("eos in list", Top, pos, FALSE)

\* lines 233-236 and 264
ListClose ==
  /\ At("list_got") /\ Top.c # EOF /\ Top.c = Top.terminator
  /\ UNCHANGED heapv
  /\ Return(Top.l, Top, pos + 1)

\* line 238: SET(x, READ_CALL())
ListRead ==
  /\ At("list_got") /\ Top.c # EOF /\ Top.c # Top.terminator
  /\ UNCHANGED heapv
  /\ Call([Top EXCEPT !.pc = "list_elem"], pos, nctor, FALSE)

\* lines 240-243: '.' before any element
ListDotFirst ==
  /\ At("list_elem") /\ EQ(ret, SYMBOL_DOT) /\ EQ(Top.lc, NIL)
  /\ nctor' = nctor + 1
  /\ UNCHANGED <<pairs, strs, symbols>>
  /\ Fail("expected something before '.' in list", [Top EXCEPT !.x = ret],
          pos, FALSE)

\* line 245: the READ_CALL() of SET_CDR(lc, READ_CALL())
ListDot ==
  /\ At("list_elem") /\ EQ(ret, SYMBOL_DOT) /\ ~EQ(Top.lc, NIL)
  /\ nctor' = nctor + 1
  /\ UNCHANGED <<pairs, strs, symbols>>
  /\ Call([Top EXCEPT !.pc = "list_cdr", !.x = ret, !.dotted = TRUE],
          pos, nctor + 1, FALSE)

\* as ListAppended, but the head is set on every element, not on the first
ListAppended_head(f, tab, x) ==
  LET y == PTR("pair", Len(tab) + 1)
      t1 == cons(tab, x, NIL)
  IN  [ pairs |-> IF EQ(f.lc, NIL) THEN t1 ELSE set_cdr(t1, f.lc, y),
        l |-> y,
        lc |-> y ]

\* the list after CONS(x, NIL) was appended to it (lines 255-261)
ListAppended(f, tab, x) ==
  LET y == PTR("pair", Len(tab) + 1)
      t1 == cons(tab, x, NIL)
  IN  [ pairs |-> IF EQ(f.lc, NIL) THEN t1 ELSE set_cdr(t1, f.lc, y),
        l |-> IF EQ(f.lc, NIL) THEN y ELSE f.l,
        lc |-> y ]

\* lines 254-262
ListAppend ==
  /\ At("list_elem") /\ ~EQ(ret, SYMBOL_DOT)
  /\ LET r == ListAppended(Top, pairs, ret)
     IN  /\ pairs' = r.pairs
         /\ nctor' = nctor + 2
         /\ UNCHANGED <<strs, symbols>>
         /\ Goto(EnterWs([Top EXCEPT !.x = ret, !.l = r.l, !.lc = r.lc,
                                     !.elems = Append(Top.elems, ret)],
                         "list_got", pos), pos, FALSE)

\* lines 245-247: SET_CDR(lc, <the value read>)
ListCdr ==
  /\ At("list_cdr")
  /\ pairs' = set_cdr(pairs, Top.lc, ret)
  /\ UNCHANGED <<strs, symbols, nctor>>
  /\ Goto(EnterWs([Top EXCEPT !.tail = ret, !.tend = pos], "dot_got", pos),
          pos, FALSE)

\* line 248
DotEOS ==
  /\ At("dot_got") /\ Top.c = EOF
  /\ UNCHANGED heapv
  /\ Fail("eos in '.' list after cdr", Top, pos, FALSE)

\* as DotMismatch, but whatever follows the dotted tail closes the list
DotMismatch_accept ==
  /\ At("dot_got") /\ Top.c # EOF /\ Top.c # Top.terminator
  /\ UNCHANGED heapv
  /\ Return(Top.l, Top, pos + 1)

\* lines 249-252
DotMismatch ==
  /\ At("dot_got") /\ Top.c # EOF /\ Top.c # Top.terminator
  /\ UNCHANGED heapv
  /\ Fail("expected terminator", Top, pos + 1, FALSE)

\* lines 253 and 264
DotClose ==
  /\ At("dot_got") /\ Top.c # EOF /\ Top.c = Top.terminator
  /\ UNCHANGED heapv
  /\ Return(Top.l, Top, pos + 1)

(***************************************************************************)
(* Hash production (lines 267-405).  The harness defines T and U, and      *)
(* neither E nor CALL_MACRO_CHAR.                                          *)
(***************************************************************************)
\* line 267: after GETC of the '#', control reaches hash_again
ReadHash ==
  /\ At("read_got") /\ Top.c = Ord("#")
  /\ Goto([Top EXCEPT !.pc = "hash", !.prod = "hash", !.lpos = pos + 1],
          pos + 1, FALSE)
  /\ UNCHANGED heapv

\* lines 271-272
HashEOS ==
  /\ At("hash") /\ Avail /\ PEEKC = EOF
  /\ UNCHANGED heapv
  /\ Fail("eos after '#'", [Top EXCEPT !.c = EOF], pos, TRUE)

\* lines 275-280
HashShebang ==
  /\ At("hash") /\ Avail /\ PEEKC = Ord("!")
  /\ Goto([Top EXCEPT !.pc = "shebang", !.c = PEEKC], pos + 1, FALSE)
  /\ UNCHANGED heapv

\* lines 281-283: one turn of the loop
ShebangChar ==
  /\ At("shebang") /\ Avail
  /\ PEEKC # EOF /\ PEEKC # Ord("\n")
  /\ Goto([Top EXCEPT !.c = PEEKC], pos + 1, FALSE)
  /\ UNCHANGED heapv

\* line 284: goto try_again
ShebangEnd ==
  /\ At("shebang") /\ Avail
  /\ PEEKC = EOF \/ PEEKC = Ord("\n")
  /\ Goto(Retry([Top EXCEPT !.c = PEEKC], "try_again", pos), pos, PEEKC = EOF)
  /\ UNCHANGED heapv

\* lines 287-290
HashBlock ==
  /\ At("hash") /\ Avail /\ PEEKC = Ord("|")
  /\ Goto([Top EXCEPT !.pc = "block", !.c = PEEKC, !.level = 1,
                      !.cstart = pos + 1, !.cctor = nctor], pos + 1, FALSE)
  /\ UNCHANGED heapv

\* line 291: level > 0 && (c = GETC(stream)) != EOF
BlockGet ==
  /\ At("block") /\ Avail
  /\ Top.level > 0 /\ PEEKC # EOF
  /\ Goto([Top EXCEPT !.c = PEEKC,
             !.pc = IF PEEKC \in {Ord("|"), Ord("#")} THEN "block_peek" ELSE "block"],
          pos + 1, FALSE)
  /\ UNCHANGED heapv

\* lines 291, 300-301: end of input inside the comment
BlockEOS ==
  /\ At("block") /\ Avail
  /\ Top.level > 0 /\ PEEKC = EOF
  /\ UNCHANGED heapv
  /\ Fail("eos inside #| comment |#", [Top EXCEPT !.c = EOF], pos, TRUE)

\* as BlockLevel, but a "#|" inside the comment does not nest
BlockLevel_flat(level, c, p) ==
  IF c = Ord("|") /\ p = Ord("#") THEN level - 1 ELSE level

\* The nesting level after c was read and p is the next character, and
\* whether p is consumed (lines 292-298).
BlockLevel(level, c, p) ==
  IF c = Ord("|") /\ p = Ord("#") THEN level - 1
  ELSE IF c = Ord("#") /\ p = Ord("|") THEN level + 1
  ELSE level
BlockTakes(c, p) ==
  \/ c = Ord("|") /\ p = Ord("#")
  \/ c = Ord("#") /\ p = Ord("|")

\* lines 292-299, and 303 (goto try_again) once level is 0
BlockPeek ==
  /\ At("block_peek") /\ Avail
  /\ LET lv == BlockLevel(Top.level, Top.c, PEEKC)
         np == IF BlockTakes(Top.c, PEEKC) THEN pos + 1 ELSE pos
         f  == [Top EXCEPT !.level = lv, !.cend = IF lv = 0 THEN np ELSE Top.cend]
     IN  IF lv > 0
           THEN /\ Goto([f EXCEPT !.pc = "block"], np, PEEKC = EOF)
                /\ UNCHANGED heapv
           ELSE /\ stack' = [stack EXCEPT ![Len(stack)] = Retry(f, "try_again", np)]
                /\ pos' = np
                /\ ev' = [op |-> "comment", f |-> f, end |-> np,
                          depth |-> Len(stack), nctor |-> nctor]
                /\ UNCHANGED <<feof, ret, status, mainv, stream, heapv>>

\* lines 306-312: "#;" and the READ_CALL() of the datum to discard
HashDatum ==
  /\ At("hash") /\ Avail /\ PEEKC = Ord(";")
  /\ UNCHANGED heapv
  /\ Call([Top EXCEPT !.pc = "datum_ret", !.c = PEEKC], pos + 1, nctor, FALSE)

\* line 313: goto try_again
DatumRet ==
  /\ At("datum_ret")
  /\ Goto(Retry(Top, "try_again", pos), pos, FALSE)
  /\ UNCHANGED heapv

\* lines 315-316: the '(' is left for the nested read
HashVector ==
  /\ At("hash") /\ Avail /\ PEEKC = Ord("(")
  /\ UNCHANGED heapv
  /\ Call([Top EXCEPT !.pc = "vector_ret", !.c = PEEKC, !.prod = "vector"],
          pos, nctor, FALSE)

\* LIST_2_VECTOR(X) of the harness is X
VectorRet ==
  /\ At("vector_ret")
  /\ nctor' = nctor + 1
  /\ UNCHANGED <<pairs, strs, symbols>>
  /\ Return(ret, Top, pos)

\* lines 339-353
HashConstant(c) ==
  IF c \in {Ord("f"), Ord("F")} THEN F
  ELSE IF c \in {Ord("t"), Ord("T")} THEN T
  ELSE U

HashBool ==
  /\ At("hash") /\ Avail
  /\ PEEKC \in {Ord("f"), Ord("F"), Ord("t"), Ord("T"), Ord("u"), Ord("U")}
  /\ UNCHANGED heapv
  /\ Return(HashConstant(PEEKC), [Top EXCEPT !.c = PEEKC, !.prod = "constant"],
            pos + 1)

\* as HashExact, but the exactness letter is not consumed
HashExact_stay ==
  /\ At("hash") /\ Avail
  /\ PEEKC \in {Ord("e"), Ord("E"), Ord("i"), Ord("I")}
  /\ Goto(Retry([Top EXCEPT !.c = PEEKC], "hash", pos), pos, FALSE)
  /\ UNCHANGED heapv

\* lines 361-364: goto hash_again
HashExact ==
  /\ At("hash") /\ Avail
  /\ PEEKC \in {Ord("e"), Ord("E"), Ord("i"), Ord("I")}
  /\ Goto(Retry([Top EXCEPT !.c = PEEKC], "hash", pos + 1), pos + 1, FALSE)
  /\ UNCHANGED heapv

RadixOf(c) ==
  IF c \in {Ord("b"), Ord("B")} THEN 2
  ELSE IF c \in {Ord("o"), Ord("O")} THEN 8
  ELSE IF c \in {Ord("d"), Ord("D")} THEN 10
  ELSE 16

\* the token buffer after lines 451-453: buf = MALLOC(len + 1); buf[0] = c
TokenStart(f, c) ==
  [f EXCEPT !.pc = "tok_loop", !.prod = "token", !.c = c,
            !.len = 1, !.size = 2, !.buf = <<c>>, !.widx = 0, !.wsize = 2,
            !.tstart = pos, !.sym0 = Len(symbols)]

\* lines 366-387, then read_number with c the radix letter
HashRadix ==
  /\ At("hash") /\ Avail
  /\ PEEKC \in {Ord("b"), Ord("B"), Ord("o"), Ord("O"),
                Ord("d"), Ord("D"), Ord("x"), Ord("X")}
  /\ Goto(TokenStart([Top EXCEPT !.skip_radix_char = 1, !.radix = RadixOf(PEEKC)],
                     PEEKC), pos + 1, FALSE)
  /\ UNCHANGED heapv

HashKnown ==
  { Ord(ch) : ch \in {"!", "|", ";", "(", "\\", "f", "F", "t", "T", "u", "U",
                      "e", "E", "i", "I", "b", "B", "o", "O", "d", "D", "x", "X"} }

\* line 403
HashBad ==
  /\ At("hash") /\ Avail /\ PEEKC # EOF /\ PEEKC \notin HashKnown
  /\ UNCHANGED heapv
  /\ Fail("bad sequence", [Top EXCEPT !.c = PEEKC], pos, FALSE)

(***************************************************************************)
(* Token buffers.  buf holds the bytes written so far, buf[i + 1] being    *)
(* the C buf[i]; size is the size last asked of MALLOC or REALLOC; widx    *)
(* and wsize are the index of the last write and the size it was made      *)
(* under.                                                                  *)
(***************************************************************************)
\* as GrowSize, but with no room for the final NUL
GrowSize_short(len) == len + 1

\* buf = REALLOC(buf, len + 2); buf[len ++] = c;   (lines 327-328, 456-457)
GrowSize(len) == len + 2
BufPush(f, c) ==
  [f EXCEPT !.size = GrowSize(f.len), !.buf = Append(f.buf, c),
            !.len = f.len + 1, !.widx = f.len, !.wsize = GrowSize(f.len), !.c = c]

\* buf[len] = '\0';   (lines 330, 425, 459)
BufNul(f) == [f EXCEPT !.buf = Append(f.buf, 0), !.widx = f.len, !.wsize = f.size]

\* STRING(p, n) of the harness: a copy of the n bytes at p
make_string(tab, text) == Append(tab, text)

(***************************************************************************)
(* Character literal (lines 318-337).                                      *)
(***************************************************************************)
HashChar ==
  /\ At("hash") /\ Avail /\ PEEKC = Ord("\\")
  /\ Goto([Top EXCEPT !.pc = "char_first", !.c = PEEKC, !.prod = "char",
                      !.len = 1], pos + 1, FALSE)
  /\ UNCHANGED heapv

\* lines 321-322
CharEOS ==
  /\ At("char_first") /\ Avail /\ PEEKC = EOF
  /\ UNCHANGED heapv
  /\ Fail("eos after '#\\'", [Top EXCEPT !.c = EOF], pos, TRUE)

\* lines 321-324
CharFirst ==
  /\ At("char_first") /\ Avail /\ PEEKC # EOF
  /\ Goto([Top EXCEPT !.pc = IF isalpha(PEEKC) THEN "char_loop" ELSE "char_done",
                      !.c = PEEKC, !.len = 1, !.size = 2, !.buf = <<PEEKC>>,
                      !.widx = 0, !.wsize = 2], pos + 1, FALSE)
  /\ UNCHANGED heapv

\* lines 325-329: one turn of the loop
CharMore ==
  /\ At("char_loop") /\ Avail
  /\ isalpha(PEEKC) /\ ~macro_terminating_charQ(PEEKC)
  /\ Goto(BufPush(Top, PEEKC), pos + 1, FALSE)
  /\ UNCHANGED heapv

\* line 325: the loop ends
CharStop ==
  /\ At("char_loop") /\ Avail
  /\ ~(isalpha(PEEKC) /\ ~macro_terminating_charQ(PEEKC))
  /\ Goto([Top EXCEPT !.pc = "char_done", !.c = PEEKC], pos, PEEKC = EOF)
  /\ UNCHANGED heapv

CharName(f) == SubSeq(f.buf, 1, f.len)
IsSpaceName(f) == strcasecmp_eq(CharName(f), Txt(<<"s", "p", "a", "c", "e">>))
IsNewlineName(f) ==
  strcasecmp_eq(CharName(f), Txt(<<"n", "e", "w", "l", "i", "n", "e">>))

\* line 333
CharUnknown ==
  /\ At("char_done")
  /\ ~IsSpaceName(Top) /\ ~IsNewlineName(Top) /\ Top.len > 1
  /\ UNCHANGED heapv
  /\ Fail("unknown char name", BufNul(Top), pos, FALSE)

\* c = buf[0]: whether plain char is signed is the implementation's choice
CharValues(f) ==
  IF IsSpaceName(f) THEN {32}
  ELSE IF IsNewlineName(f) THEN {10}
  ELSE IF f.buf[1] >= 128 THEN {f.buf[1], f.buf[1] - 256}
  ELSE {f.buf[1]}

\* lines 330-336
CharDone ==
  /\ At("char_done")
  /\ IsSpaceName(Top) \/ IsNewlineName(Top) \/ Top.len <= 1
  /\ nctor' = nctor + 1
  /\ UNCHANGED <<pairs, strs, symbols>>
  /\ \E c \in CharValues(Top) :
       Return(MAKE_CHAR(c), [BufNul(Top) EXCEPT !.c = c], pos)

(***************************************************************************)
(* String production (lines 407-427).                                      *)
(***************************************************************************)
\* buflen += buflen + 1
NextBuflen(buflen) == buflen + buflen + 1

\* lines 407-409
ReadString ==
  /\ At("read_got") /\ Top.c = Ord("\"")
  /\ Goto([Top EXCEPT !.pc = "str_loop", !.prod = "string", !.len = 0,
                      !.buflen = NextBuflen(2), !.size = NextBuflen(2),
                      !.buf = <<>>], pos + 1, FALSE)
  /\ UNCHANGED heapv

\* line 410: c = GETC(stream), and it is not the closing quote
StrGet ==
  /\ At("str_loop") /\ Avail /\ PEEKC # Ord("\"")
  /\ Goto([Top EXCEPT !.pc = "str_again", !.c = PEEKC],
          IF PEEKC = EOF THEN pos ELSE pos + 1, PEEKC = EOF)
  /\ UNCHANGED heapv

\* lines 412-414
StrEOS ==
  /\ At("str_again") /\ Top.c = EOF
  /\ UNCHANGED heapv
  /\ Fail("EOS in string", Top, pos, FALSE)

\* if ( buflen <= len ) buf = REALLOC(buf, buflen += buflen + 1);
\* buf[len ++] = c;
StrPush(f) ==
  LET bl == IF f.buflen <= f.len THEN NextBuflen(f.buflen) ELSE f.buflen
      sz == IF f.buflen <= f.len THEN NextBuflen(f.buflen) ELSE f.size
  IN  [f EXCEPT !.buflen = bl, !.size = sz, !.buf = Append(f.buf, f.c),
                !.len = f.len + 1, !.widx = f.len, !.wsize = sz]

\* lines 415-422
StrAgain ==
  /\ At("str_again") /\ Top.c # EOF
  /\ Goto([StrPush(Top) EXCEPT
             !.pc = IF Top.c = Ord("\\") THEN "str_esc" ELSE "str_loop"],
          pos, FALSE)
  /\ UNCHANGED heapv

\* line 420: c = GETC(stream); goto again;
StrEsc ==
  /\ At("str_esc") /\ Avail
  /\ Goto([Top EXCEPT !.pc = "str_again", !.c = PEEKC],
          IF PEEKC = EOF THEN pos ELSE pos + 1, PEEKC = EOF)
  /\ UNCHANGED heapv

\* buf = REALLOC(buf, len + 1); buf[len] = '\0';
StrTrim(f) == BufNul([f EXCEPT !.size = f.len + 1])

\* lines 410, 424-426: the closing quote; ESCAPE_STRING is the identity
StrClose ==
  /\ At("str_loop") /\ Avail /\ PEEKC = Ord("\"")
  /\ strs' = make_string(strs, SubSeq(Top.buf, 1, Top.len))
  /\ nctor' = nctor + 1
  /\ UNCHANGED <<pairs, symbols>>
  /\ Return(PTR("str", Len(strs) + 1),
            [StrTrim(Top) EXCEPT !.c = PEEKC, !.soff = 0, !.slen = Top.len],
            pos + 1)

(***************************************************************************)
(* Token production (lines 429-473).                                       *)
(***************************************************************************)
\* lines 429-453 and 476-477
ReadToken ==
  /\ At("read_got") /\ token_startQ(Top.c)
  /\ Goto(TokenStart(Top, Top.c), pos + 1, FALSE)
  /\ UNCHANGED heapv

\* lines 454-458: one turn of the loop
TokMore ==
  /\ At("tok_loop") /\ Avail
  /\ ~macro_terminating_charQ(PEEKC)
  /\ Goto(BufPush(Top, PEEKC), pos + 1, FALSE)
  /\ UNCHANGED heapv

\* line 454: the loop ends
TokStop ==
  /\ At("tok_loop") /\ Avail
  /\ macro_terminating_charQ(PEEKC)
  /\ Goto([Top EXCEPT !.pc = "tok_done", !.c = PEEKC], pos, PEEKC = EOF)
  /\ UNCHANGED heapv

\* as TokText, but the radix letter is not skipped
TokText_whole(f) == SubSeq(f.buf, 1, f.len)

\* the text of s = STRING(buf + skip_radix_char, len - skip_radix_char)
TokText(f) == SubSeq(f.buf, 1 + f.skip_radix_char, f.len)
\* the frame after lines 459-461
TokString(f) ==
  [BufNul(f) EXCEPT !.soff = f.skip_radix_char, !.slen = f.len - f.skip_radix_char]
\* n = STRING_2_NUMBER(s, radix)
TokNumberValue(f) == string_2_number(TokText(f), f.radix)

\* lines 459-463, 472: the host parsed a number
TokNumber ==
  /\ At("tok_done") /\ ~EQ(TokNumberValue(Top), F)
  /\ strs' = make_string(strs, TokText(Top))
  /\ nctor' = nctor + 2
  /\ UNCHANGED <<pairs, symbols>>
  /\ Return(TokNumberValue(Top), TokString(Top), pos)

\* line 464
TokInvalid ==
  /\ At("tok_done") /\ EQ(TokNumberValue(Top), F) /\ Top.skip_radix_char # 0
  /\ strs' = make_string(strs, TokText(Top))
  /\ nctor' = nctor + 2
  /\ UNCHANGED <<pairs, symbols>>
  /\ Fail("invalid number string", TokString(Top), pos, FALSE)

\* lines 465, 472: n = STRING_2_SYMBOL(s)
TokSymbol ==
  /\ At("tok_done") /\ EQ(TokNumberValue(Top), F) /\ Top.skip_radix_char = 0
  /\ strs' = make_string(strs, TokText(Top))
  /\ symbols' = SymTab(symbols, TokText(Top))
  /\ nctor' = nctor + 3
  /\ UNCHANGED pairs
  /\ Return(string_2_symbol(symbols, TokText(Top)), TokString(Top), pos)

\* line 478
ReadUnexpected ==
  /\ At("read_got") /\ Top.c # EOF
  /\ Top.c \notin {Ord("'"), Ord("BQ"), Ord(","), Ord("("), Ord("["), Ord("#"),
                   Ord("\"")}
  /\ ~token_startQ(Top.c)
  /\ UNCHANGED heapv
  /\ Fail("unexpected character", Top, pos + 1, FALSE)

(***************************************************************************)
(* The callers.                                                            *)
(***************************************************************************)
StartRead ==
  /\ stack' = <<Frame(pos, nctor)>>
  /\ mainpc' = "read"
  /\ nreads' = nreads + 1
  /\ UNCHANGED <<pos, feof, ret, heapv, status, result, neos, eos0, ev, stream>>

\* main, lines 667-669: while ( ! feof(stdin) ) test_read(stdin);
MainRead ==
  /\ status = "run" /\ mainpc = "loop" /\ ~feof
  /\ StartRead

\* main, line 671
MainHalt ==
  /\ status = "run" /\ mainpc = "loop" /\ feof
  /\ mainpc' = "halt"
  /\ UNCHANGED <<pos, feof, stack, ret, heapv, status, result, nreads, neos,
                 eos0, ev, stream>>

\* a host that goes on reading after End-Of-Stream
HostRead ==
  /\ status = "run" /\ mainpc = "loop" /\ neos <= MaxEosReads
  /\ StartRead

Reader ==
  \/ Feed
  \/ EatSpace \/ EatCommentStart \/ EatCommentChar \/ EatCommentEnd \/ EatDone
  \/ TryAgain \/ ReadEOS \/ ReadQuote \/ ReadComma \/ CommaPeek \/ QuoteRet
  \/ ReadList \/ ListEOS \/ ListClose \/ ListRead \/ ListDotFirst \/ ListDot
  \/ ListAppend \/ ListCdr \/ DotEOS \/ DotMismatch \/ DotClose
  \/ ReadHash \/ HashEOS \/ HashShebang \/ ShebangChar \/ ShebangEnd
  \/ HashBlock \/ BlockGet \/ BlockEOS \/ BlockPeek
  \/ HashDatum \/ DatumRet \/ HashVector \/ VectorRet \/ HashBool
  \/ HashExact \/ HashRadix \/ HashBad
  \/ HashChar \/ CharEOS \/ CharFirst \/ CharMore \/ CharStop \/ CharUnknown
  \/ CharDone
  \/ ReadString \/ StrGet \/ StrEOS \/ StrAgain \/ StrEsc \/ StrClose
  \/ ReadToken \/ TokMore \/ TokStop \/ TokNumber \/ TokInvalid \/ TokSymbol
  \/ ReadUnexpected

\* the reader under a host that reads on at the end of the input
Next == Reader \/ HostRead
Spec == Init /\ [][Next]_vars

\* the reader under the harness's main; each step of a C program is taken
NextMain == Reader \/ MainRead \/ MainHalt
MainSpec == Init /\ [][NextMain]_vars /\ WF_vars(NextMain)

(***************************************************************************)
(* Properties.                                                             *)
(***************************************************************************)
IsRet == ev.op = "ret"
IsErr == ev.op = "error"
Aborted(msg) == IsErr /\ ev.msg = msg

\* What the skipper is to do, read off the text: the number of characters
\* consumed once those after the first i are neither white space nor a
\* ';' comment.
RECURSIVE LineEnd(_, _)
LineEnd(s, i) ==
  IF i < Len(s) /\ s[i + 1] # Ord("\n") THEN LineEnd(s, i + 1) ELSE i
RECURSIVE SkipBlank(_, _)
SkipBlank(s, i) ==
  IF i < Len(s) /\ isspace(s[i + 1]) THEN SkipBlank(s, i + 1)
  ELSE IF i < Len(s) /\ s[i + 1] = Ord(";") THEN SkipBlank(s, LineEnd(s, i))
  ELSE i
\* the text after the first i characters holds no datum
Blank(s, i) == SkipBlank(s, i) = Len(s)

\* v heads a chain of at least n pairs
RECURSIVE IsChain(_, _, _)
IsChain(tab, v, n) ==
  n = 0 \/ (v.k = "pair" /\ IsChain(tab, tab[v.w].cdr, n - 1))
\* the firsts of the first n pairs of the chain
RECURSIVE Firsts(_, _, _)
Firsts(tab, v, n) ==
  IF n = 0 THEN <<>> ELSE <<tab[v.w].car>> \o Firsts(tab, tab[v.w].cdr, n - 1)
\* the rest of the n-th pair of the chain
RECURSIVE RestAfter(_, _, _)
RestAfter(tab, v, n) ==
  IF n = 0 THEN v ELSE RestAfter(tab, tab[v.w].cdr, n - 1)

SymbolNamed(v, name) ==
  v.k = "sym" /\ v.w \in 1..Len(symbols) /\ symbols[v.w] = name

\* C1: a list production returns its elements in input order as a chain of
\* pairs: Nil for no element, otherwise exactly n pairs whose firsts are the
\* n values read, in the order read, the last rest being Nil, or for a dotted
\* list the value read after the '.' itself; "(a b c)" yields the symbols
\* a, b, c.
C1_ListInOrder ==
  /\ (IsRet /\ ev.f.prod = "list") =>
       LET n == Len(ev.f.elems)
       IN  /\ n = 0 => ev.v = NIL
           /\ IsChain(pairs, ev.v, n)
           /\ Firsts(pairs, ev.v, n) = ev.f.elems
           /\ RestAfter(pairs, ev.v, n) = IF ev.f.dotted THEN ev.f.tail ELSE NIL
           /\ ev.f.dotted => n >= 1
  /\ (/\ input = Txt(<<"(", "a", " ", "b", " ", "c", ")">>)
      /\ IsRet /\ ev.depth = 1 /\ ev.f.start = 0) =>
       /\ ev.f.prod = "list"
       /\ Len(ev.f.elems) = 3
       /\ SymbolNamed(ev.f.elems[1], Txt(<<"a">>))
       /\ SymbolNamed(ev.f.elems[2], Txt(<<"b">>))
       /\ SymbolNamed(ev.f.elems[3], Txt(<<"c">>))

\* a bracketed, dotted list of two elements was returned
C1_Witness ==
  /\ IsRet /\ ev.f.prod = "list" /\ ev.f.terminator = Ord("]")
  /\ ev.f.dotted /\ Len(ev.f.elems) = 2 /\ ev.f.tail = IMM(1 + 8192)

\* C2: reading at the end of the input is idempotent: a read that starts
\* where the rest of the input is only white space and ';' comments returns
\* End-Of-Stream, and once a top-level read has returned End-Of-Stream every
\* later one returns it too, no constructor is called and no error raised.
C2_EosIdempotent ==
  /\ (IsRet /\ closed /\ Blank(input, ev.f.start)) =>
       (ev.v = EOS /\ ev.nctor = ev.f.ctor0)
  /\ neos >= 1 => (result = EOS /\ nctor = eos0 /\ status = "run")

\* End-Of-Stream was returned three times, after a comment and some data
C2_Witness ==
  /\ neos >= 3 /\ mainpc = "loop" /\ result = EOS
  /\ nctor > 0 /\ input[Len(input)] = Ord("\n")

Closer(c) == IF c = Ord("[") THEN Ord("]") ELSE Ord(")")
ListFrame(f) == f.prod = "list"

\* a list production stands at one of the three malformations
Malformed ==
  /\ Running /\ ListFrame(Top)
  /\ \/ Top.pc = "list_got" /\ Top.c = EOF
     \/ Top.pc = "list_elem" /\ EQ(ret, SYMBOL_DOT) /\ EQ(Top.lc, NIL)
     \/ Top.pc = "dot_got" /\ Top.c # Top.terminator

\* C3: a malformed list ends in a signalled error, never in a value.  A list
\* production that returns has consumed, last, the terminator that matches
\* its opening bracket; if it read a '.', an element came before it and only
\* white space and comments stand between the dotted tail and the terminator.
\* A list production at the end of the input before its terminator, at a '.'
\* before any element, or at another character than its terminator after a
\* dotted tail, raises an error as its next step.  "(1 2", "(. 1)",
\* "(a . b c)" and "(a . b]" return nothing.
C3_ReturnsWellFormed ==
  /\ (IsRet /\ ev.f.prod = "list") =>
       /\ input[ev.end] = Closer(input[ev.f.open + 1])
       /\ input[ev.end] = ev.f.terminator
       /\ ev.f.dotted => /\ Len(ev.f.elems) >= 1
                         /\ SkipBlank(input, ev.f.tend) = ev.end - 1
  /\ (/\ input \in { Txt(<<"(", "1", " ", "2">>),
                     Txt(<<"(", ".", " ", "1", ")">>),
                     Txt(<<"(", "a", " ", ".", " ", "b", " ", "c", ")">>),
                     Txt(<<"(", "a", " ", ".", " ", "b", "]">>) }
      /\ closed) =>
       /\ nreads <= 1 /\ neos = 0
       /\ (nreads = 1 => mainpc = "read")
       /\ status = "abort" => ev.depth = 1 /\ ev.f.prod = "list"

C3_MalformedListFails ==
  /\ []C3_ReturnsWellFormed
  /\ [][Malformed => /\ status' = "abort"
                      /\ Len(stack') = Len(stack)
                      /\ result' = result /\ ret' = ret]_vars

\* "(a . b]" was refused at the ']'
C3_Witness ==
  /\ Aborted("expected terminator") /\ ev.f.terminator = Ord(")")
  /\ ev.f.c = Ord("]") /\ Len(ev.f.elems) = 1

\* The end of a block comment read off the text: the number of characters
\* consumed when the nesting level, at level after the first i characters,
\* reaches 0 scanning left to right; -1 when the text ends first.
RECURSIVE BlockEnd(_, _, _)
BlockEnd(s, i, level) ==
  IF level = 0 THEN i
  ELSE IF i >= Len(s) THEN -1
  ELSE IF i + 2 <= Len(s) /\ s[i + 1] = Ord("|") /\ s[i + 2] = Ord("#")
    THEN BlockEnd(s, i + 2, level - 1)
  ELSE IF i + 2 <= Len(s) /\ s[i + 1] = Ord("#") /\ s[i + 2] = Ord("|")
    THEN BlockEnd(s, i + 2, level + 1)
  ELSE BlockEnd(s, i + 1, level)

NestedComment ==
  Txt(<<"#", "|", " ", "a", " ", "#", "|", " ", "b", " ", "|", "#", " ", "c",
        " ", "|", "#", " ", "7">>)

\* C4: block comments nest and balance.  The nesting counter is 1 after "#|"
\* and never negative; the comment ends exactly where the text's "#|" and
\* "|#", counted left to right, bring the count to 0, with no constructor
\* called inside it; the same read goes on with the datum that follows (the
\* nested example yields 7); the error for an unterminated comment is raised
\* exactly when the text ends before the count is 0.
C4_BlockCommentsBalance ==
  /\ \A i \in 1..Len(stack) :
       /\ stack[i].level >= 0
       /\ stack[i].pc \in {"block", "block_peek"} => stack[i].level >= 1
  /\ ev.op = "comment" =>
       /\ ev.f.level = 0
       /\ BlockEnd(input, ev.f.cstart, 1) = ev.end
       /\ ev.nctor = ev.f.cctor
  /\ (IsRet /\ ev.f.cend > 0) =>
       /\ BlockEnd(input, ev.f.cstart, 1) = ev.f.cend
       /\ ev.f.prod # "eos" => ev.f.dstart >= ev.f.cend
  /\ Aborted("eos inside #| comment |#") =>
       /\ closed /\ ev.f.level > 0
       /\ BlockEnd(input, ev.f.cstart, 1) = -1
  /\ (input = NestedComment /\ nreads >= 1 /\ status = "run"
        /\ (mainpc = "loop" \/ nreads > 1)) =>
       /\ IsRet
       /\ nreads = 1 => (result = IMM(7 + 8192) /\ ev.f.cend = 17 /\ ev.nctor = 2)

\* the nested example's comment was read and its read returned the 7
C4_Witness ==
  /\ input = NestedComment /\ IsRet /\ ev.f.cend = 17 /\ ev.v = IMM(7 + 8192)

\* The end of a token read off the text: the number of characters consumed
\* when the character after the first i is a terminating one.
RECURSIVE RunEnd(_, _)
RunEnd(s, i) ==
  IF i < Len(s) /\ ~macro_terminating_charQ(s[i + 1]) THEN RunEnd(s, i + 1) ELSE i

RadixByLetter(c) ==
  CASE tolower(c) = Ord("b") -> 2
    [] tolower(c) = Ord("o") -> 8
    [] tolower(c) = Ord("d") -> 10
    [] tolower(c) = Ord("x") -> 16
    [] OTHER -> 0

\* a token production returned, or failed in its number
TokenEvent ==
  /\ IsRet \/ Aborted("invalid number string")
  /\ ev.f.prod = "token"
\* the text the production handed to STRING, and so to the number parser
Handed(f) == SubSeq(f.buf, f.soff + 1, f.soff + f.slen)

\* C5: an explicit radix prefix commits the token to being numeric.  After
\* "#b", "#o", "#d", "#x" in either case the text handed to the number parser
\* is the text after the radix letter up to the first terminating character,
\* with radix 2, 8, 10, 16; if the parser returns a number it is returned
\* ("#x1F" yields 31), and if not an error is raised and no symbol interned
\* ("#xZZ").  Without a prefix the radix is 10, the whole token is handed
\* over, and a failed parse yields the symbol spelled by the whole token.
C5_RadixCommits ==
  /\ TokenEvent =>
       LET f == ev.f
           e == RunEnd(input, f.tstart + 1)
           whole == SubSeq(input, f.tstart + 1, e)
           after == SubSeq(input, f.tstart + 2, e)
       IN  /\ ev.end = e
           /\ IF f.tstart # f.dstart
                THEN /\ input[f.dstart + 1] = Ord("#")
                     /\ RadixByLetter(input[f.tstart + 1]) # 0
                     /\ f.radix = RadixByLetter(input[f.tstart + 1])
                     /\ Handed(f) = after
                     /\ IF string_2_number(after, f.radix) # F
                          THEN IsRet /\ ev.v = string_2_number(after, f.radix)
                          ELSE IsErr /\ ev.nsym = f.sym0
                ELSE /\ f.radix = 10
                     /\ Handed(f) = whole
                     /\ IsRet
                     /\ IF string_2_number(whole, 10) # F
                          THEN ev.v = string_2_number(whole, 10)
                          ELSE SymbolNamed(ev.v, whole)
  /\ (input = Txt(<<"#", "x", "1", "F">>) /\ nreads >= 1
        /\ (mainpc = "loop" \/ nreads > 1 \/ status = "abort")) =>
       (status = "run" /\ (nreads = 1 => result = IMM(31 + 8192)))
  /\ (input = Txt(<<"#", "x", "Z", "Z">>) /\ nreads >= 1) =>
       /\ mainpc = "read" /\ nreads = 1 /\ symbols = << Txt(<<".">>) >>
       /\ status = "abort" => Aborted("invalid number string")

\* an octal literal was read: "#o17" is 15
C5_Witness ==
  /\ TokenEvent /\ IsRet /\ ev.f.skip_radix_char = 1 /\ ev.f.radix = 8
  /\ ev.v = IMM(15 + 8192) /\ Handed(ev.f) = Txt(<<"1", "7">>)

\* C6: End-Of-Stream is distinct from every value made from input text: no
\* read that consumed a datum's text (a number or symbol token, a character
\* literal, a constant, a string, a list, a quote form) returns a value
\* identity-equal to EOS.
C6_EosDistinct ==
  (IsRet /\ ev.f.prod \in {"token", "char", "constant", "string", "list",
                           "quote", "vector"})
    => ~EQ(ev.v, EOS)

\* C7: a comment is discarded wherever a datum may appear, also right before
\* the closing terminator of a list: a read that skipped a "#;" datum
\* comment, a "#|...|#" or a "#!" comment as a list element and then stands
\* at the list's terminator raises no error; "(a #;b)", "(#;a)",
\* "(a #|b|#)" and "(a #!b<newline>)" are read without error.
C7_CommentBeforeTerminator ==
  /\ ~(/\ Aborted("unexpected character")
       /\ ev.depth > 1 /\ ev.f.retries > 0
       /\ ListFrame(stack[ev.depth - 1])
       /\ ev.f.c = stack[ev.depth - 1].terminator)
  /\ input \in { Txt(<<"(", "a", " ", "#", ";", "b", ")">>),
                 Txt(<<"(", "#", ";", "a", ")">>),
                 Txt(<<"(", "a", " ", "#", "|", "b", "|", "#", ")">>),
                 Txt(<<"(", "a", " ", "#", "!", "b", "\n", ")">>) }
       => status = "run"

\* a value has End-Of-Stream as the first or the rest of one of its pairs
RECURSIVE HasEos(_, _)
HasEos(tab, v) ==
  /\ v.k = "pair"
  /\ \/ EQ(tab[v.w].car, EOS) \/ EQ(tab[v.w].cdr, EOS)
     \/ HasEos(tab, tab[v.w].car) \/ HasEos(tab, tab[v.w].cdr)

\* C8: End-Of-Stream is only ever the direct result of a read: no value a
\* read returns holds End-Of-Stream as the first or the rest of a pair.
C8_NoEosInPairs == IsRet => ~HasEos(pairs, ev.v)

Done == mainpc = "halt" \/ status = "abort"

\* C9: every read terminates.  No retry label (try_again, hash_again,
\* more_whitespace) is reached again without a character consumed since a
\* label was last reached; a read that returns anything but End-Of-Stream has
\* consumed a character; and under the harness's main, which reads until
\* feof, the program reaches its end or an error.
C9_Progress ==
  /\ \A i \in 1..Len(stack) : ~stack[i].stalled
  /\ (IsRet \/ IsErr) => ~ev.f.stalled
  /\ (IsRet /\ ev.f.prod # "eos") => ev.end > ev.f.start
  /\ (IsRet /\ ev.f.prod = "eos") => feof

C9_Terminates == []C9_Progress /\ <>Done

\* main ended after a read that retried twice and then returned a value
C9_Witness ==
  /\ mainpc = "halt" /\ nreads >= 2 /\ pos = Len(input)
  /\ input = Txt(<<"(", "#", ";", "a", " ", "b", " ", "#", ";", "c", " ", "d", ")">>)

BufOk(f) == f.widx < f.wsize /\ f.wsize <= f.size
StringOk(f) ==
  /\ f.soff >= 0 /\ f.slen >= 0
  /\ f.soff = f.skip_radix_char
  /\ f.soff + f.slen < f.size
  /\ f.soff + f.slen + 1 <= Len(f.buf)
  /\ f.buf[f.soff + f.slen + 1] = 0

\* C10: buffer accesses stay inside the allocation.  In the string, token
\* and character productions every write, of a character or of the final
\* NUL, is at an index below the size last asked of MALLOC or REALLOC, and
\* the (pointer, length) given to STRING lies in the buffer, with a length
\* >= 0 and the NUL at index length.
C10_BufferInBounds ==
  /\ \A i \in 1..Len(stack) : BufOk(stack[i])
  /\ (IsRet \/ IsErr) => BufOk(ev.f)
  /\ (/\ IsRet \/ Aborted("invalid number string")
      /\ ev.f.prod \in {"token", "string"}) => StringOk(ev.f)
  /\ (IsRet /\ ev.f.prod = "char") => ev.f.buf[ev.f.len + 1] = 0

\* a string longer than its first buffer was returned
C10_Witness ==
  /\ IsRet /\ ev.f.prod = "string" /\ ev.f.buflen = 11 /\ ev.f.slen = 9
  /\ strs[ev.v.w] = SubSeq(ev.f.buf, 1, 9)

=============================================================================
